---- MODULE Spec2Model ----
(***************************************************************************)
(* Model of src/playback-patch.js: the stream resolver resolveStreamUrl,   *)
(* the idempotent script loader loadScript and the wrapper installed over  *)
(* window.playPlaylistTrack with its deferred attachment pass.             *)
(*                                                                         *)
(* Strings are modelled by what the code asks of them.  A URL-like string  *)
(* is a record [kind, dir, ext]:                                           *)
(*   kind "abs"   an absolute URL  https://<dir>/a.<ext>                   *)
(*   kind "rel"   a string without a scheme (a.<ext>): new URL(s) throws   *)
(*   kind "none"  undefined or the empty string (falsy)                    *)
(* Two such strings are equal (===) iff the records are equal.             *)
(***************************************************************************)
EXTENDS Integers, Sequences, FiniteSets, TLC

\* the depth bound of the resolver (if(depth>4) return originalUrl)
maxDepth == 4

\* ------------------------------------------------------------- bounds
\* lines in a response body, direct calls of resolveStreamUrl in a row,
\* wrapped calls in flight, tracks in the playlist
MaxLines == 2
MaxRuns == 2
MaxCalls == 2
PlaylistLen == 2

\* ------------------------------------------------------------ strings
Dirs == {"d1", "d2"}
Exts == {"m3u8", "m3u", "mp3"}

Undefined == [kind |-> "none", dir |-> "-", ext |-> "-"]
AbsUrls == [kind : {"abs"}, dir : Dirs, ext : Exts]
RelStrs == [kind : {"rel"}, dir : {"-"}, ext : Exts]
Strs == AbsUrls \cup RelStrs \cup {Undefined}

Falsy(u) == u.kind = "none"

\* new URL(u) with no base: throws unless u is an absolute URL
CanParse(u) == u.kind = "abs"

\* /\.m3u8?$/.test(new URL(u).pathname): case-sensitive, .m3u or .m3u8
PathIsM3u(u) == u.ext \in {"m3u8", "m3u"}

\* the content types a response may declare ("" = no content-type header)
Cts == {"application/vnd.apple.mpegurl", "text/plain", ""}

\* /application\/vnd\.apple\.mpegurl|application\/x-mpegURL|audio\/x-mpegurl|text\/plain/i.test(ct)
CtIsPlaylist(ct) ==
  ct \in {"application/vnd.apple.mpegurl", "application/x-mpegurl",
          "audio/x-mpegurl", "text/plain"}

looksLikePlaylist(finalUrl, ct) == PathIsM3u(finalUrl) \/ CtIsPlaylist(ct)

\* --------------------------------------------------- manifest bodies
\* One line of a response body, by what the scan asks of it:
\*   "empty"       the empty line
\*   "comment"     a line starting with '#'
\*   "padcomment"  white space, then '#...'
\*   "bad"         text that new URL(l, base) rejects (e.g. "http://")
\*   "abs"         an absolute URL https://<dir>/a.<ext>
\*   "rel"         a relative reference a.<ext>
PlainLines == [kind : {"empty", "comment", "padcomment", "bad"},
               dir : {"-"}, ext : {"-"}]
AbsLines == [kind : {"abs"}, dir : Dirs, ext : Exts]
RelLines == [kind : {"rel"}, dir : {"-"}, ext : {"m3u8", "mp3"}]
Lines == PlainLines \cup AbsLines \cup RelLines

\* a body of n lines; the text is empty iff n = 0
Bodies == UNION {[1..k -> Lines] : k \in 0..MaxLines}

\* l.trim()
trim(l) == IF l.kind = "padcomment" THEN [l EXCEPT !.kind = "comment"] ELSE l

\* Boolean(l): the empty string is falsy
NonEmpty(l) == l.kind # "empty"

\* text.split(/\r?\n/).map(l=>l.trim()).filter(Boolean)
splitLines(text) ==
  SelectSeq([i \in 1..Len(text) |-> trim(text[i])], NonEmpty)

\* l.startsWith('#')
startsWithHash(l) == l.kind = "comment"

\* new URL(l, base) succeeds
CanResolve(l) == l.kind \in {"abs", "rel"}

\* new URL(l, base).href: an absolute reference stands, a relative one
\* takes the directory of the base
hrefOf(l, base) ==
  IF l.kind = "abs" THEN [kind |-> "abs", dir |-> l.dir, ext |-> l.ext]
  ELSE [kind |-> "abs", dir |-> base.dir, ext |-> l.ext]

\* --------------------------------------------------------- resolver
\* One resolveStreamUrl call chain.  pc is the await it is suspended at:
\*   "idle"  not called, "fetch" awaiting fetch(), "text" awaiting
\*   resp.text(), "done" settled.
\* arg is the URL of the outermost call; depth, originalUrl, finalUrl, ct
\* are the locals of the innermost frame.  nfetch counts fetch() calls.
\* read, ref, entries, usable, rel, chain record what the responses were (see
\* Observe);
\* failed records that the outer catch ran.
IdleR ==
  [pc |-> "idle", depth |-> 0, arg |-> Undefined, originalUrl |-> Undefined,
   finalUrl |-> Undefined, ct |-> "", result |-> Undefined,
   settled |-> "pending", nfetch |-> 0, chain |-> 0, ref |-> Undefined,
   entries |-> 0, usable |-> Undefined, rel |-> FALSE, read |-> FALSE,
   failed |-> FALSE]

\* the wrapped calls in flight, and the call chains of the resolver: one per
\* wrapped call, and chain 0 for resolveStreamUrl called on its own
Calls == 1..MaxCalls
Rids == 0..MaxCalls

VARIABLES
  rs,               \* resolveStreamUrl call chains
  runs,             \* calls of resolveStreamUrl made on chain 0
  cs,               \* the wrapped playPlaylistTrack calls
  currentPlaylist,  \* window.currentPlaylist
  scripts,          \* the script tags of the document with the client's src
  hlsInstance,      \* window._hlsInstance: 0 (null) or an instance id
  hls,              \* the Hls instances constructed so far
  hlsLog            \* the calls made on the client library, in order

wvars == <<cs, currentPlaylist, scripts, hlsInstance, hls, hlsLog>>

vars == <<rs, runs, cs, currentPlaylist, scripts, hlsInstance, hls, hlsLog>>

\* return u: the promise of the call chain fulfils with u (the frames that
\* awaited a nested call return its value unchanged, line 16)
return(r, u) == [r EXCEPT !.pc = "done", !.result = u, !.settled = "fulfilled"]

\* a resolver whose outer catch rethrows
catchOuter_rethrow(r) ==
  [r EXCEPT !.pc = "done", !.failed = TRUE, !.settled = "rejected"]

\* a resolver whose outer catch falls back to the URL the call chain was
\* first asked for
catchOuter_first(r) == return([r EXCEPT !.failed = TRUE], r.arg)

\* catch(e){ console.warn(...); return originalUrl; }
catchOuter(r) == return([r EXCEPT !.failed = TRUE], r.originalUrl)

\* a resolver whose depth test is off by one (depth > 5)
resolveStreamUrl_deep(r, url, d) ==
  IF Falsy(url) \/ d > maxDepth + 1
  THEN return([r EXCEPT !.depth = d, !.originalUrl = url, !.read = FALSE], url)
  ELSE [r EXCEPT !.pc = "fetch", !.depth = d, !.originalUrl = url,
                 !.finalUrl = Undefined, !.ct = "", !.nfetch = @ + 1,
                 !.read = FALSE]

\* entry of a call, up to its first await: the two early returns, then
\* fetch(originalUrl, ...) is issued
resolveStreamUrl(r, url, d) ==
  IF Falsy(url) \/ d > maxDepth
  THEN return([r EXCEPT !.depth = d, !.originalUrl = url, !.read = FALSE], url)
  ELSE [r EXCEPT !.pc = "fetch", !.depth = d, !.originalUrl = url,
                 !.finalUrl = Undefined, !.ct = "", !.nfetch = @ + 1,
                 !.read = FALSE]

\* what fetch() settles with: a rejection, or a response with its final
\* URL (absolute, or "" for a response that carries none) and content type
Responses(urls, cts) ==
  [ok : {FALSE}, url : {Undefined}, ct : {""}]
    \cup [ok : {TRUE}, url : urls \cup {Undefined}, ct : cts]

\* a resolver that ignores the redirect target of a response that is no
\* playlist and returns the URL it requested
onFetch_requested(r, resp) ==
  IF ~resp.ok THEN catchOuter(r)
  ELSE LET finalUrl == IF Falsy(resp.url) THEN r.originalUrl ELSE resp.url
           r1 == [r EXCEPT !.finalUrl = finalUrl, !.ct = resp.ct]
       IN  IF ~CanParse(finalUrl) THEN catchOuter(r1)
           ELSE IF looksLikePlaylist(finalUrl, resp.ct)
                THEN [r1 EXCEPT !.pc = "text"]
                ELSE return(r1, r.originalUrl)

\* the frame resumes after await fetch(): finalUrl, ct, looksLikePlaylist
onFetch(r, resp) ==
  IF ~resp.ok THEN catchOuter(r)
  ELSE LET finalUrl == IF Falsy(resp.url) THEN r.originalUrl ELSE resp.url
           r1 == [r EXCEPT !.finalUrl = finalUrl, !.ct = resp.ct]
       IN  IF ~CanParse(finalUrl) THEN catchOuter(r1)
           ELSE IF looksLikePlaylist(finalUrl, resp.ct)
                THEN [r1 EXCEPT !.pc = "text"]
                ELSE return(r1, finalUrl)

\* a scan without the cycle guard (candidate !== originalUrl)
RECURSIVE scanLines_noguard(_, _, _)
scanLines_noguard(r, lines, i) ==
  IF i > Len(lines) THEN return(r, r.finalUrl)
  ELSE IF startsWithHash(lines[i]) THEN scanLines_noguard(r, lines, i + 1)
  ELSE IF ~CanResolve(lines[i]) THEN scanLines_noguard(r, lines, i + 1)
  ELSE LET candidate == hrefOf(lines[i], r.finalUrl)
       IN  IF PathIsM3u(candidate)
           THEN resolveStreamUrl(r, candidate, r.depth + 1)
           ELSE return(r, candidate)

\* a scan that returns the manifest's own URL for a reference that is no
\* manifest
RECURSIVE scanLines_final(_, _, _)
scanLines_final(r, lines, i) ==
  IF i > Len(lines) THEN return(r, r.finalUrl)
  ELSE IF startsWithHash(lines[i]) THEN scanLines_final(r, lines, i + 1)
  ELSE IF ~CanResolve(lines[i]) THEN scanLines_final(r, lines, i + 1)
  ELSE LET candidate == hrefOf(lines[i], r.finalUrl)
       IN  IF PathIsM3u(candidate) /\ candidate # r.originalUrl
           THEN resolveStreamUrl(r, candidate, r.depth + 1)
           ELSE return(r, r.finalUrl)

\* a scan that resolves a reference against the URL it requested
RECURSIVE scanLines_requested(_, _, _)
scanLines_requested(r, lines, i) ==
  IF i > Len(lines) THEN return(r, r.finalUrl)
  ELSE IF startsWithHash(lines[i]) THEN scanLines_requested(r, lines, i + 1)
  ELSE IF ~CanResolve(lines[i]) THEN scanLines_requested(r, lines, i + 1)
  ELSE LET candidate == hrefOf(lines[i], r.originalUrl)
       IN  IF PathIsM3u(candidate) /\ candidate # r.originalUrl
           THEN resolveStreamUrl(r, candidate, r.depth + 1)
           ELSE return(r, candidate)

\* for(const l of lines){ ... } return finalUrl;
RECURSIVE scanLines(_, _, _)
scanLines(r, lines, i) ==
  IF i > Len(lines) THEN return(r, r.finalUrl)
  ELSE IF startsWithHash(lines[i]) THEN scanLines(r, lines, i + 1)
  ELSE IF ~CanResolve(lines[i]) THEN scanLines(r, lines, i + 1)
  ELSE LET candidate == hrefOf(lines[i], r.finalUrl)
       IN  IF PathIsM3u(candidate) /\ candidate # r.originalUrl
           THEN resolveStreamUrl(r, candidate, r.depth + 1)
           ELSE return(r, candidate)

\* a resolver that answers an empty body with the URL it requested
onText_requested(r, ok, text) ==
  IF ~ok THEN catchOuter(r)
  ELSE IF Len(text) = 0 THEN return(r, r.originalUrl)
  ELSE scanLines(r, splitLines(text), 1)

\* the frame resumes after await resp.text()
onText(r, ok, text) ==
  IF ~ok THEN catchOuter(r)
  ELSE IF Len(text) = 0 THEN return(r, r.finalUrl)
  ELSE scanLines(r, splitLines(text), 1)

\* ------------------------------------------- what the responses were
\* The vocabulary of the claims, stated on the raw body and not on the
\* scan: a blank line, a comment line, an entry (any other line), and the
\* reference the first entry makes against the response's final URL.
BadRef == [kind |-> "bad", dir |-> "-", ext |-> "-"]

IsBlankLine(l) == l.kind = "empty"

IsCommentLine(l) == l.kind \in {"comment", "padcomment"}

IsEntry(l) == ~IsBlankLine(l) /\ ~IsCommentLine(l)

EntriesOf(text) == SelectSeq(text, IsEntry)

RefOf(l, base) ==
  CASE l.kind = "abs" -> [kind |-> "abs", dir |-> l.dir, ext |-> l.ext]
    [] l.kind = "rel" -> [kind |-> "abs", dir |-> base.dir, ext |-> l.ext]
    [] OTHER -> BadRef

FirstRef(text, base) ==
  IF Len(EntriesOf(text)) = 0 THEN Undefined
  ELSE RefOf(EntriesOf(text)[1], base)

\* an entry that new URL(l, finalUrl) accepts, and the reference the first
\* such entry of a body makes against the response's final URL
IsUsable(l) == IsEntry(l) /\ RefOf(l, Undefined) # BadRef

FirstUsable(text, base) ==
  LET usable == SelectSeq(text, IsUsable)
  IN  IF Len(usable) = 0 THEN Undefined ELSE RefOf(usable[1], base)

\* the first entry of a body that parses is a relative reference
FirstUsableIsRel(text) ==
  LET usable == SelectSeq(text, IsUsable)
  IN  Len(usable) > 0 /\ usable[1].kind = "rel"

IsManifestUrl(u) == u.kind = "abs" /\ u.ext \in {"m3u", "m3u8"}

\* The body read at this level.  read: the innermost frame has read its
\* body; entries, ref: the number of entries and the first reference of the
\* body read last and the reference of its first entry that parses (rel: it
\* is a relative one), kept until the next fetch settles (Forget); chain: the
\* number of levels, from the first on, whose manifest's first entry
\* referenced a further manifest (-1 once a later level was read).
Observe(r, text) ==
  LET ref == FirstRef(text, r.finalUrl)
  IN  [r EXCEPT !.read = TRUE, !.entries = Len(EntriesOf(text)), !.ref = ref,
                !.usable = FirstUsable(text, r.finalUrl),
                !.rel = FirstUsableIsRel(text),
                !.chain = IF @ # r.depth THEN -1
                          ELSE IF IsManifestUrl(ref) /\ ref # r.originalUrl
                               THEN @ + 1 ELSE @]

Forget(r) ==
  [r EXCEPT !.ref = Undefined, !.entries = 0, !.usable = Undefined,
            !.rel = FALSE]

\* ---------------------------------------------------------- wrapper
\* The argument of playPlaylistTrack: an integer n, the fraction n + 0.5,
\* NaN, or a value that is no number (a string).
Indices ==
  [kind : {"int"}, n : -1..PlaylistLen]
    \cup [kind : {"frac", "nan", "str"}, n : {0}]

\* typeof idx === 'number'
IsNumber(idx) == idx.kind # "str"

\* idx < 0 (false for NaN)
LtZero(idx) == idx.kind \in {"int", "frac"} /\ idx.n < 0

\* a bounds test that lets idx = length through (idx > length)
GeLength_gt(idx, len) == idx.kind \in {"int", "frac"} /\ idx.n > len

\* idx >= length (false for NaN)
GeLength(idx, len) == idx.kind \in {"int", "frac"} /\ idx.n >= len

\* list[idx]: undefined unless idx is an integer index of the list
At(list, idx) ==
  IF idx.kind = "int" /\ idx.n \in 0..(Len(list) - 1)
  THEN list[idx.n + 1] ELSE Undefined

\* One wrapped call.  pc:
\*   "new"        not made yet
\*   "resolving"  awaiting resolveStreamUrl(t)             (line 38)
\*   "orig"       awaiting orig(idx)                       (line 40)
\*   "delegated"  returned orig(idx): the promise of the call follows it
\*                                                         (lines 35, 36, 62)
\*   "timer"      the deferred pass is scheduled           (line 41)
\*   "load"       the pass awaits the script it appended   (line 53)
\*   "end"        nothing left to run
\* idx, t, resolved are the locals of the call (t and resolved are dropped
\* once the awaited orig settles); ret is the promise the call returned;
\* origArgs the arguments orig was invoked with by this call; atOrig the
\* playlist entry when orig was invoked at line 40; wrote counts the
\* playlist writes, resolves the calls of resolveStreamUrl, timers the
\* passes scheduled and loads the calls of loadScript; src is the source
\* the pass found; native records that the pass took the native path;
\* caught holds the failures the pass of the call caught: "destroy" (the
\* inner catch of line 55), "load", "new", "attach" (the catch of line 60),
\* "play" (the catch handler of line 51); m3uSrc records that the pass found
\* a source ending in .m3u or .m3u8; assigned is what the pass assigned to
\* audioEl.src; found is what the pass found in the document ("none": the
\* pass has not run); awaited is how the promise of orig awaited at line 40
\* settled ("none": not yet, or orig was returned, not awaited).
NewCall ==
  [pc |-> "new", idx |-> [kind |-> "nan", n |-> 0], t |-> Undefined,
   resolved |-> Undefined, ret |-> "pending", origArgs |-> <<>>,
   atOrig |-> Undefined, wrote |-> 0, resolves |-> 0, timers |-> 0,
   loads |-> 0, src |-> Undefined, native |-> FALSE, caught |-> {},
   m3uSrc |-> FALSE, assigned |-> Undefined, found |-> "none",
   awaited |-> "none"]

\* a wrapper that counts the index of the write from the end of the list
afterResolve_fromEnd(c, resolved) ==
  LET k == cs[c]
      write == ~Falsy(resolved) /\ resolved # k.t
      list == IF write
              THEN [currentPlaylist EXCEPT ![Len(currentPlaylist) - k.idx.n] = resolved]
              ELSE currentPlaylist
  IN  /\ currentPlaylist' = list
      /\ cs' = [cs EXCEPT ![c] =
                  [k EXCEPT !.pc = "orig", !.resolved = resolved,
                            !.wrote = IF write THEN @ + 1 ELSE @,
                            !.origArgs = Append(@, k.idx),
                            !.atOrig = At(list, k.idx)]]
      /\ UNCHANGED <<scripts, hlsInstance, hls, hlsLog>>

\* a wrapper that invokes orig first and writes the entry afterwards
afterResolve_late(c, resolved) ==
  LET k == cs[c]
      write == ~Falsy(resolved) /\ resolved # k.t
      list == IF write
              THEN [currentPlaylist EXCEPT ![k.idx.n + 1] = resolved]
              ELSE currentPlaylist
  IN  /\ currentPlaylist' = list
      /\ cs' = [cs EXCEPT ![c] =
                  [k EXCEPT !.pc = "orig", !.resolved = resolved,
                            !.wrote = IF write THEN @ + 1 ELSE @,
                            !.origArgs = Append(@, k.idx),
                            !.atOrig = At(currentPlaylist, k.idx)]]
      /\ UNCHANGED <<scripts, hlsInstance, hls, hlsLog>>

\* lines 39-40: the frame resumes after await resolveStreamUrl(t)
afterResolve(c, resolved) ==
  LET k == cs[c]
      write == ~Falsy(resolved) /\ resolved # k.t
      list == IF write
              THEN [currentPlaylist EXCEPT ![k.idx.n + 1] = resolved]
              ELSE currentPlaylist
  IN  /\ currentPlaylist' = list
      /\ cs' = [cs EXCEPT ![c] =
                  [k EXCEPT !.pc = "orig", !.resolved = resolved,
                            !.wrote = IF write THEN @ + 1 ELSE @,
                            !.origArgs = Append(@, k.idx),
                            !.atOrig = At(list, k.idx)]]
      /\ UNCHANGED <<scripts, hlsInstance, hls, hlsLog>>

\* a wrapper that does not wait for the whole call chain: it goes on to
\* lines 39-40 as soon as the first response of the chain is in
Settle_early(c, r) ==
  IF c \in Calls /\ cs[c].pc = "resolving" /\ r.pc # "fetch"
  THEN /\ rs' = [rs EXCEPT ![c] = IF r.pc = "done" THEN IdleR ELSE r]
       /\ afterResolve(c, r.result)
  ELSE /\ rs' = [rs EXCEPT ![c] = r]
       /\ UNCHANGED wvars

\* a step of call chain c leaves it as r.  The continuation of a wrapped
\* call runs in the same task as the step that settles its resolver.
Settle(c, r) ==
  IF c \in Calls /\ r.pc = "done"
  THEN /\ rs' = [rs EXCEPT ![c] = IdleR]
       /\ afterResolve(c, r.result)
  ELSE /\ rs' = [rs EXCEPT ![c] = r]
       /\ UNCHANGED wvars

\* lines 33-38: window.playPlaylistTrack(idx)
playPlaylistTrack(c, idx) ==
  /\ cs[c].pc = "new"
  /\ UNCHANGED runs
  /\ IF ~IsNumber(idx) \/ LtZero(idx) \/ GeLength(idx, Len(currentPlaylist))
     THEN /\ cs' = [cs EXCEPT ![c] = [@ EXCEPT !.pc = "delegated", !.idx = idx,
                                               !.origArgs = Append(@, idx)]]
          /\ UNCHANGED <<rs, currentPlaylist, scripts, hlsInstance, hls, hlsLog>>
     ELSE LET t == At(currentPlaylist, idx)
              r == resolveStreamUrl([IdleR EXCEPT !.arg = t], t, 0)
          IN  IF r.pc = "done"
              THEN /\ rs' = rs
                   /\ currentPlaylist' = currentPlaylist
                   /\ cs' = [cs EXCEPT ![c] =
                               [@ EXCEPT !.pc = "orig", !.idx = idx, !.t = t,
                                         !.resolves = @ + 1,
                                         !.resolved = r.result,
                                         !.origArgs = Append(@, idx),
                                         !.atOrig = At(currentPlaylist, idx)]]
                   /\ UNCHANGED <<scripts, hlsInstance, hls, hlsLog>>
              ELSE /\ rs' = [rs EXCEPT ![c] = r]
                   /\ cs' = [cs EXCEPT ![c] =
                               [@ EXCEPT !.pc = "resolving", !.idx = idx, !.t = t,
                                         !.resolves = @ + 1]]
                   /\ UNCHANGED <<currentPlaylist, scripts, hlsInstance, hls, hlsLog>>

\* the promise of orig(idx) settles.  Awaited at line 40: on fulfilment the
\* deferred pass is scheduled (line 41) and the call's promise fulfils; on
\* rejection the catch of line 62 returns orig(idx).  Returned at lines 35,
\* 36, 62: the call's promise settles as orig's.
origSettles(c, ok) ==
  /\ cs[c].pc \in {"orig", "delegated"}
  /\ cs' = [cs EXCEPT ![c] =
       IF cs[c].pc = "delegated"
       THEN [@ EXCEPT !.pc = "end", !.ret = IF ok THEN "fulfilled" ELSE "rejected"]
       ELSE IF ok
            THEN [@ EXCEPT !.pc = "timer", !.timers = @ + 1, !.ret = "fulfilled",
                           !.awaited = "fulfilled",
                           !.t = Undefined, !.resolved = Undefined,
                           !.atOrig = Undefined]
            ELSE [@ EXCEPT !.pc = "delegated", !.origArgs = Append(@, cs[c].idx),
                           !.awaited = "rejected",
                           !.t = Undefined, !.resolved = Undefined,
                           !.atOrig = Undefined]]
  /\ UNCHANGED <<rs, runs, currentPlaylist, scripts, hlsInstance, hls, hlsLog>>

\* ----------------------------------------------------- deferred pass
\* the sources a media element may report ("M3U8": an upper-case suffix)
SrcExts == {"m3u8", "m3u", "M3U8", "mp3"}
Srcs ==
  [kind : {"abs"}, dir : {"d1"}, ext : SrcExts]
    \cup [kind : {"rel"}, dir : {"-"}, ext : {"m3u8", "mp3"}]
    \cup {Undefined}
AttrSrcs == {[kind |-> "abs", dir |-> "d1", ext |-> "m3u8"], Undefined}

\* s.toLowerCase()
toLowerCase(ext) == IF ext = "M3U8" THEN "m3u8" ELSE ext

\* lines 48-49: /\.m3u8(\?|$)/i on the pathname (a pathname holds no '?'),
\* and on a parse error src.toLowerCase().includes('.m3u8')
isHls(src) ==
  IF CanParse(src)
  THEN toLowerCase(src.ext) = "m3u8"     \* the pathname ends in .m3u8
  ELSE toLowerCase(src.ext) = "m3u8"     \* the string a.<ext> holds ".m3u8"

\* the source ends in .m3u8 or .m3u, whatever the case of the letters
EndsInM3u(src) == toLowerCase(src.ext) \in {"m3u8", "m3u"}

\* line 46: audioEl.currentSrc || audioEl.src || source.src
srcOf(d) ==
  IF ~Falsy(d.currentSrc) THEN d.currentSrc
  ELSE IF ~Falsy(d.src) THEN d.src ELSE d.source

\* what the pass finds in the document: the modal, the audio element, its
\* three sources and canPlayType('application/vnd.apple.mpegurl').  Only the
\* combinations that differ for the code are drawn.
Doms ==
  {d \in [modal : BOOLEAN, audio : BOOLEAN, currentSrc : Srcs, src : AttrSrcs,
          source : AttrSrcs, canPlay : BOOLEAN] :
     /\ ~d.modal => ~d.audio
     /\ ~d.audio => Falsy(d.currentSrc)
     /\ ~Falsy(d.currentSrc) \/ ~d.audio => Falsy(d.src)
     /\ ~Falsy(d.src) \/ ~d.audio \/ ~Falsy(d.currentSrc) => Falsy(d.source)
     /\ d.canPlay => d.audio /\ isHls(srcOf(d))}

\* what the pass found when it stopped at line 43, 45 or 47
Missing(d) ==
  IF ~d.modal THEN "nomodal" ELSE IF ~d.audio THEN "noaudio" ELSE "nosrc"

\* what lines 48-50 make of a source the pass found
Classified(src) == IF isHls(src) THEN "hls" ELSE "nothls"

\* what the client library does when the pass reaches it: Hls.isSupported(),
\* and whether destroy(), new Hls() or attachMedia() throws
Libs ==
  {e \in [supported : BOOLEAN, destroyThrows : BOOLEAN, newThrows : BOOLEAN,
          attachThrows : BOOLEAN] :
     /\ ~e.supported => ~e.destroyThrows /\ ~e.newThrows
     /\ e.newThrows \/ ~e.supported => ~e.attachThrows}

\* window.Hls is defined once a script tag of the client has loaded
HlsDefined == \E i \in 1..Len(scripts) : scripts[i] = "loaded"

\* what lines 54-58 throw when the library behaves as e and the slot holds
\* old: destroy() is called only on an instance in the slot, new Hls() only
\* when supported, attachMedia() only on a constructed instance
Thrown(e, old) ==
  IF ~(HlsDefined' /\ e.supported) THEN {}
  ELSE (IF old # 0 /\ e.destroyThrows THEN {"destroy"} ELSE {})
         \cup (IF e.newThrows THEN {"new"} ELSE {})
         \cup (IF ~e.newThrows /\ e.attachThrows THEN {"attach"} ELSE {})

\* an attachment that overwrites the slot without destroying what it holds
attach_leak(c, src, e) ==
  LET id == Len(hls) + 1
  IN  /\ cs' = [cs EXCEPT ![c] = [@ EXCEPT !.pc = "end", !.src = Undefined,
                                           !.loads = 1,
                                           !.found = Classified(src), !.m3uSrc = EndsInM3u(src),
                                           !.caught = Thrown(e, hlsInstance)]]
      /\ IF ~(HlsDefined' /\ e.supported)
         THEN UNCHANGED <<hlsInstance, hls, hlsLog>>
         ELSE IF e.newThrows
         THEN /\ hlsInstance' = 0
              /\ UNCHANGED <<hls, hlsLog>>
         ELSE /\ hlsInstance' = id
              /\ hls' = Append(hls, [live |-> TRUE, by |-> c,
                                     attached |-> ~e.attachThrows,
                                     handler |-> IF e.attachThrows THEN Undefined
                                                 ELSE src])
              /\ hlsLog' = Append(hlsLog, [op |-> "new", inst |-> id])

\* an attachment that constructs the new instance first and destroys the
\* previous one afterwards
attach_late(c, src, e) ==
  LET old == hlsInstance
      id == Len(hls) + 1
      made == Append(hlsLog, [op |-> "new", inst |-> id])
  IN  /\ cs' = [cs EXCEPT ![c] = [@ EXCEPT !.pc = "end", !.src = Undefined,
                                           !.loads = 1,
                                           !.found = Classified(src), !.m3uSrc = EndsInM3u(src),
                                           !.caught = Thrown(e, hlsInstance)]]
      /\ IF ~(HlsDefined' /\ e.supported) \/ e.newThrows
         THEN UNCHANGED <<hlsInstance, hls, hlsLog>>
         ELSE /\ hlsInstance' = id
              /\ hls' = Append(IF old # 0 THEN [hls EXCEPT ![old].live = FALSE]
                                ELSE hls,
                                [live |-> TRUE, by |-> c,
                                 attached |-> ~e.attachThrows,
                                 handler |-> IF e.attachThrows THEN Undefined
                                             ELSE src])
              /\ hlsLog' = IF old # 0
                           THEN Append(made, [op |-> "destroy", inst |-> old])
                           ELSE made

\* an attachment without the try of line 52: what new Hls() or attachMedia()
\* throws rejects the promise of the call
attach_uncaught(c, src, e) ==
  LET old == hlsInstance
      log1 == IF old # 0 THEN Append(hlsLog, [op |-> "destroy", inst |-> old])
              ELSE hlsLog
      hls1 == IF old # 0 THEN [hls EXCEPT ![old].live = FALSE] ELSE hls
      id == Len(hls) + 1
  IN  /\ cs' = [cs EXCEPT ![c] = [@ EXCEPT !.pc = "end", !.src = Undefined,
                                           !.loads = 1,
                                           !.found = Classified(src), !.m3uSrc = EndsInM3u(src),
                                           !.ret =
                                             IF Thrown(e, hlsInstance) \ {"destroy"} # {}
                                             THEN "rejected" ELSE @]]
      /\ IF ~(HlsDefined' /\ e.supported)
         THEN UNCHANGED <<hlsInstance, hls, hlsLog>>
         ELSE IF e.newThrows
         THEN /\ hlsInstance' = 0
              /\ hls' = hls1
              /\ hlsLog' = log1
         ELSE /\ hlsInstance' = id
              /\ hls' = Append(hls1, [live |-> TRUE, by |-> c,
                                      attached |-> ~e.attachThrows,
                                      handler |-> IF e.attachThrows THEN Undefined
                                                  ELSE src])
              /\ hlsLog' = Append(log1, [op |-> "new", inst |-> id])

\* an attachment that yields to the session in the slot: it constructs and
\* binds its instance, then destroys that one and keeps the slot as it was
attach_yield(c, src, e) ==
  LET old == hlsInstance
      id == Len(hls) + 1
      made == Append(hlsLog, [op |-> "new", inst |-> id])
  IN  /\ cs' = [cs EXCEPT ![c] = [@ EXCEPT !.pc = "end", !.src = Undefined,
                                           !.loads = 1,
                                           !.found = Classified(src), !.m3uSrc = EndsInM3u(src),
                                           !.caught = Thrown(e, hlsInstance)]]
      /\ IF ~(HlsDefined' /\ e.supported) \/ e.newThrows
         THEN UNCHANGED <<hlsInstance, hls, hlsLog>>
         ELSE /\ hlsInstance' = IF old # 0 THEN old ELSE id
              /\ hls' = Append(hls, [live |-> old = 0, by |-> c,
                                     attached |-> ~e.attachThrows,
                                     handler |-> IF e.attachThrows THEN Undefined
                                                 ELSE src])
              /\ hlsLog' = IF old # 0
                           THEN Append(made, [op |-> "destroy", inst |-> id])
                           ELSE made

\* lines 54-60: the client is attached.  An instance on which destroy() was
\* called counts as destroyed whether or not the call threw.
attach(c, src, e) ==
  LET old == hlsInstance
      log1 == IF old # 0 THEN Append(hlsLog, [op |-> "destroy", inst |-> old])
              ELSE hlsLog
      hls1 == IF old # 0 THEN [hls EXCEPT ![old].live = FALSE] ELSE hls
      id == Len(hls) + 1
  IN  /\ cs' = [cs EXCEPT ![c] = [@ EXCEPT !.pc = "end", !.src = Undefined,
                                           !.loads = 1,
                                           !.found = Classified(src), !.m3uSrc = EndsInM3u(src),
                                           !.caught = Thrown(e, hlsInstance)]]
      /\ IF ~(HlsDefined' /\ e.supported)
         THEN UNCHANGED <<hlsInstance, hls, hlsLog>>
         ELSE IF e.newThrows
         THEN /\ hlsInstance' = 0
              /\ hls' = hls1
              /\ hlsLog' = log1
         ELSE /\ hlsInstance' = id
              /\ hls' = Append(hls1, [live |-> TRUE, by |-> c,
                                      attached |-> ~e.attachThrows,
                                      handler |-> IF e.attachThrows THEN Undefined
                                                  ELSE src])
              /\ hlsLog' = Append(log1, [op |-> "new", inst |-> id])

\* a loader that asks whether the library is defined, not whether its tag
\* is in the document
scriptPresent_defined == HlsDefined

\* lines 24-29 and 53: loadScript(src) up to the point where its promise is
\* left pending: TRUE iff a tag with this src is in the document already
scriptPresent == Len(scripts) > 0

\* a pass without the return of line 51: after the native assignment it
\* goes on to load and attach the client
timerFires_fallthrough(c, d) ==
  /\ cs[c].pc = "timer"
  /\ UNCHANGED <<rs, runs, currentPlaylist>>
  /\ LET src == srcOf(d)
     IN  IF ~d.modal \/ ~d.audio \/ Falsy(src)
         THEN /\ cs' = [cs EXCEPT ![c] = [@ EXCEPT !.pc = "end",
                                                   !.found = Missing(d)]]
              /\ UNCHANGED <<scripts, hlsInstance, hls, hlsLog>>
         ELSE IF ~isHls(src)
         THEN /\ cs' = [cs EXCEPT ![c] = [@ EXCEPT !.pc = "end",
                                                   !.found = Classified(src), !.m3uSrc = EndsInM3u(src)]]
              /\ UNCHANGED <<scripts, hlsInstance, hls, hlsLog>>
         ELSE IF d.canPlay /\ scriptPresent
         THEN /\ scripts' = scripts
              /\ \E e \in Libs : attach(c, src, e)
         ELSE IF d.canPlay
         THEN /\ scripts' = Append(scripts, "loading")
              /\ cs' = [cs EXCEPT ![c] = [@ EXCEPT !.pc = "load", !.src = src,
                                                   !.native = TRUE,
                                                   !.assigned = src,
                                                   !.loads = 1,
                                                   !.found = Classified(src), !.m3uSrc = EndsInM3u(src)]]
              /\ UNCHANGED <<hlsInstance, hls, hlsLog>>
         ELSE IF scriptPresent
         THEN /\ scripts' = scripts
              /\ \E e \in Libs : attach(c, src, e)
         ELSE /\ scripts' = Append(scripts, "loading")
              /\ cs' = [cs EXCEPT ![c] = [@ EXCEPT !.pc = "load", !.src = src,
                                                   !.loads = 1,
                                                   !.found = Classified(src), !.m3uSrc = EndsInM3u(src)]]
              /\ UNCHANGED <<hlsInstance, hls, hlsLog>>

\* a pass without the return of line 50: it goes on to the attachment
\* whatever the source is
timerFires_anysrc(c, d) ==
  /\ cs[c].pc = "timer"
  /\ UNCHANGED <<rs, runs, currentPlaylist>>
  /\ LET src == srcOf(d)
     IN  IF ~d.modal \/ ~d.audio \/ Falsy(src)
         THEN /\ cs' = [cs EXCEPT ![c] = [@ EXCEPT !.pc = "end",
                                                   !.found = Missing(d)]]
              /\ UNCHANGED <<scripts, hlsInstance, hls, hlsLog>>
         ELSE IF d.canPlay
         THEN /\ \E playOk \in BOOLEAN :
                   cs' = [cs EXCEPT ![c] =
                            [@ EXCEPT !.pc = "end", !.native = TRUE,
                                      !.found = Classified(src), !.m3uSrc = EndsInM3u(src),
                                      !.assigned = src,
                                      !.caught = IF playOk THEN {} ELSE {"play"}]]
              /\ UNCHANGED <<scripts, hlsInstance, hls, hlsLog>>
         ELSE IF scriptPresent
         THEN /\ scripts' = scripts
              /\ \E e \in Libs : attach(c, src, e)
         ELSE /\ scripts' = Append(scripts, "loading")
              /\ cs' = [cs EXCEPT ![c] = [@ EXCEPT !.pc = "load", !.src = src,
                                                   !.loads = 1,
                                                   !.found = Classified(src), !.m3uSrc = EndsInM3u(src)]]
              /\ UNCHANGED <<hlsInstance, hls, hlsLog>>

\* lines 42-53: the timer fires and the pass runs up to await loadScript;
\* when the tag is present loadScript resolves at once and the pass goes on
\* to the attachment in the same task.  On the native path (line 51) the
\* source is assigned, play() is called and its rejection is swallowed.
timerFires(c, d) ==
  /\ cs[c].pc = "timer"
  /\ UNCHANGED <<rs, runs, currentPlaylist>>
  /\ LET src == srcOf(d)
     IN  IF ~d.modal \/ ~d.audio \/ Falsy(src)
         THEN /\ cs' = [cs EXCEPT ![c] = [@ EXCEPT !.pc = "end",
                                                   !.found = Missing(d)]]
              /\ UNCHANGED <<scripts, hlsInstance, hls, hlsLog>>
         ELSE IF ~isHls(src)
         THEN /\ cs' = [cs EXCEPT ![c] = [@ EXCEPT !.pc = "end",
                                                   !.found = Classified(src), !.m3uSrc = EndsInM3u(src)]]
              /\ UNCHANGED <<scripts, hlsInstance, hls, hlsLog>>
         ELSE IF d.canPlay
         THEN /\ \E playOk \in BOOLEAN :
                   cs' = [cs EXCEPT ![c] =
                            [@ EXCEPT !.pc = "end", !.native = TRUE,
                                      !.found = Classified(src), !.m3uSrc = EndsInM3u(src),
                                      !.assigned = src,
                                      !.caught = IF playOk THEN {} ELSE {"play"}]]
              /\ UNCHANGED <<scripts, hlsInstance, hls, hlsLog>>
         ELSE IF scriptPresent
         THEN /\ scripts' = scripts
              /\ \E e \in Libs : attach(c, src, e)
         ELSE /\ scripts' = Append(scripts, "loading")
              /\ cs' = [cs EXCEPT ![c] = [@ EXCEPT !.pc = "load", !.src = src,
                                                   !.loads = 1,
                                                   !.found = Classified(src), !.m3uSrc = EndsInM3u(src)]]
              /\ UNCHANGED <<hlsInstance, hls, hlsLog>>

\* the script tag appended by the pass of call c fires onload or onerror
scriptSettles(c, ok) ==
  /\ cs[c].pc = "load"
  /\ UNCHANGED <<rs, runs, currentPlaylist>>
  /\ \E i \in 1..Len(scripts) :
       /\ scripts[i] = "loading"
       /\ scripts' = [scripts EXCEPT ![i] = IF ok THEN "loaded" ELSE "failed"]
  /\ IF ok THEN \E e \in Libs : attach(c, cs[c].src, e)
     ELSE /\ cs' = [cs EXCEPT ![c] = [@ EXCEPT !.pc = "end", !.src = Undefined,
                                               !.caught = {"load"}]]
          /\ UNCHANGED <<hlsInstance, hls, hlsLog>>

\* a handler that loads the entry of the playlist the call was made for,
\* not the source its pass found
mediaAttached_entry(i) ==
  /\ i \in 1..Len(hls)
  /\ hls[i].live /\ hls[i].attached /\ ~Falsy(hls[i].handler)
  /\ hls' = [hls EXCEPT ![i].handler = Undefined]
  /\ hlsLog' = IF hlsInstance = 0 THEN hlsLog
               ELSE Append(hlsLog, [op |-> "loadSource", inst |-> hlsInstance,
                                    src |-> At(currentPlaylist, cs[hls[i].by].idx)])
  /\ UNCHANGED <<rs, runs, cs, currentPlaylist, scripts, hlsInstance>>

\* line 58: MEDIA_ATTACHED fires on instance i (a destroyed instance fires
\* nothing); the handler calls loadSource(src), with the src of the pass
\* that registered it, on whatever the slot holds
mediaAttached(i) ==
  /\ i \in 1..Len(hls)
  /\ hls[i].live /\ hls[i].attached /\ ~Falsy(hls[i].handler)
  /\ hls' = [hls EXCEPT ![i].handler = Undefined]
  /\ hlsLog' = IF hlsInstance = 0 THEN hlsLog
               ELSE Append(hlsLog, [op |-> "loadSource", inst |-> hlsInstance,
                                    src |-> hls[i].handler])
  /\ UNCHANGED <<rs, runs, cs, currentPlaylist, scripts, hlsInstance>>

\* ---------------------------------------------------------- actions
\* fetch() settles for call chain c
FetchReturn(c, urls, cts) ==
  /\ rs[c].pc = "fetch"
  /\ \E resp \in Responses(urls, cts) : Settle(c, onFetch(Forget(rs[c]), resp))
  /\ UNCHANGED runs

\* resp.text() settles for call chain c
TextReturn(c, bodies) ==
  /\ rs[c].pc = "text"
  /\ \/ Settle(c, onText(rs[c], FALSE, <<>>))
     \/ \E text \in bodies : Settle(c, onText(Observe(rs[c], text), TRUE, text))
  /\ UNCHANGED runs

\* the level of the body read last (-1: none)
LastReadLevel(r) == IF r.read THEN r.depth ELSE r.depth - 1

\* the requested URL was answered by a response that is no playlist: neither
\* by the path of its final URL nor by its content type
IsLeafResponse(r) ==
  /\ r.pc = "done" /\ r.depth = 0 /\ ~r.failed
  /\ r.finalUrl.kind = "abs"
  /\ r.finalUrl.ext \notin {"m3u", "m3u8"}
  /\ r.ct \notin {"application/vnd.apple.mpegurl", "text/plain"}

\* the URLs resolveStreamUrl is called with: a manifest URL, a media URL,
\* a string without a scheme, and undefined
Inputs ==
  {[kind |-> "abs", dir |-> "d1", ext |-> "m3u8"],
   [kind |-> "abs", dir |-> "d1", ext |-> "mp3"],
   [kind |-> "rel", dir |-> "-", ext |-> "m3u8"],
   Undefined}

\* resolveStreamUrl(u) is called on its own (chain 0)
Resolve(u) ==
  /\ runs = 0
  /\ rs[0].pc = "idle"
  /\ rs' = [rs EXCEPT ![0] = resolveStreamUrl([IdleR EXCEPT !.arg = u], u, 0)]
  /\ runs' = 1
  /\ UNCHANGED wvars

\* the URL returned for a leaf response is resolved again
ResolveAgain ==
  /\ runs \in 1..(MaxRuns - 1)
  /\ IsLeafResponse(rs[0])
  /\ rs' = [rs EXCEPT ![0] = resolveStreamUrl([IdleR EXCEPT !.arg = rs[0].result],
                                                rs[0].result, 0)]
  /\ runs' = runs + 1
  /\ UNCHANGED wvars

\* the tracks a playlist holds at the start
Tracks ==
  {[kind |-> "abs", dir |-> "d1", ext |-> "m3u8"],
   [kind |-> "abs", dir |-> "d1", ext |-> "mp3"]}

\* the state once the patch has run over a page with a playlist and no
\* client script
Init ==
  /\ rs = [c \in Rids |-> IdleR]
  /\ runs = 0
  /\ cs = [c \in Calls |-> NewCall]
  /\ currentPlaylist \in [1..PlaylistLen -> Tracks]
  /\ scripts = <<>>
  /\ hlsInstance = 0
  /\ hls = <<>>
  /\ hlsLog = <<>>

\* resolveStreamUrl called on its own, answered by any response and body
InitResolve ==
  /\ Init
  /\ currentPlaylist = [i \in 1..PlaylistLen |-> [kind |-> "abs", dir |-> "d1", ext |-> "m3u8"]]

NextResolve ==
  \/ \E u \in Inputs : Resolve(u)
  \/ ResolveAgain
  \/ FetchReturn(0, AbsUrls, Cts)
  \/ TextReturn(0, Bodies)

SpecResolve == InitResolve /\ [][NextResolve]_vars

\* the responses and bodies served to the wrapped calls
PageUrls == {u \in AbsUrls : u.dir = "d1"}
PageCts == {"application/vnd.apple.mpegurl", ""}
PageBodies ==
  {<<>>} \cup {<<l>> : l \in {x \in AbsLines : x.dir = "d1"}}

\* the wrapped calls are numbered in the order they are made
InOrder(c) == \A o \in 1..(c - 1) : cs[o].pc # "new"

\* the page calls window.playPlaylistTrack(idx): wrapped call c is made
Call(c, idx) ==
  /\ InOrder(c)
  /\ playPlaylistTrack(c, idx)

Next ==
  \/ \E c \in Calls, idx \in Indices : Call(c, idx)
  \/ \E c \in Calls : FetchReturn(c, PageUrls, PageCts)
  \/ \E c \in Calls : TextReturn(c, PageBodies)
  \/ \E c \in Calls, ok \in BOOLEAN : origSettles(c, ok)
  \/ \E c \in Calls, d \in Doms : timerFires(c, d)
  \/ \E c \in Calls, ok \in BOOLEAN : scriptSettles(c, ok)
  \/ \E i \in 1..MaxCalls : mediaAttached(i)

Spec == Init /\ [][Next]_vars

\* ------------------------------------------------- resolver properties
\* C1: whatever the network does at any level (fetch rejects, the body read
\* fails, the final URL does not parse, a reference line is malformed),
\* resolveStreamUrl never rejects: once settled it is fulfilled with a
\* string (a URL, possibly the input itself).
C1_NeverRejects ==
  \A c \in DOMAIN rs :
    /\ rs[c].settled # "rejected"
    /\ rs[c].pc = "done" => rs[c].settled = "fulfilled" /\ rs[c].result \in Strs

\* a failure at a nested level was caught and the call fulfilled
C1_FailedNested ==
  \E c \in DOMAIN rs :
    /\ rs[c].pc = "done" /\ rs[c].failed /\ rs[c].depth >= 1
    /\ rs[c].settled = "fulfilled"

\* C2: one resolve call never makes more than maxDepth + 1 = 5 fetches; while
\* it runs, the fetches made are depth + 1 (depth grows by one per recursive
\* step); and on a chain of manifests longer than the depth bound (each of
\* the levels 0..4 answers with a manifest whose first entry references a
\* further manifest) it ends after exactly 5 fetches with a non-empty URL.
C2_DepthBound ==
  \A c \in DOMAIN rs :
    /\ rs[c].nfetch <= maxDepth + 1
    /\ rs[c].pc \in {"fetch", "text"} => rs[c].nfetch = rs[c].depth + 1
    /\ rs[c].chain = maxDepth + 1 =>
         /\ rs[c].pc = "done"
         /\ rs[c].nfetch = maxDepth + 1
         /\ rs[c].result.kind = "abs"

\* a chain longer than the depth bound was cut
C2_ChainCut ==
  \E c \in DOMAIN rs :
    rs[c].pc = "done" /\ rs[c].chain = maxDepth + 1 /\ rs[c].depth = maxDepth + 1

\* C3: a URL answered by a response that is no playlist is resolved with
\* exactly one fetch to the response's final URL; resolving the returned URL
\* again (the fetch fails, or it is answered as before with that URL as
\* final URL) returns the same URL.
C3_LeafIdempotent ==
  \A c \in DOMAIN rs :
    /\ IsLeafResponse(rs[c]) =>
         rs[c].nfetch = 1 /\ rs[c].result = rs[c].finalUrl
    /\ (/\ c = 0 /\ runs >= 2 /\ rs[c].pc = "done" /\ rs[c].depth = 0
        /\ \/ rs[c].failed
           \/ IsLeafResponse(rs[c]) /\ rs[c].finalUrl = rs[c].arg)
       => rs[c].nfetch = 1 /\ rs[c].result = rs[c].arg

\* the URL returned for a leaf response was resolved again to itself
C3_ResolvedAgain ==
  /\ runs >= 2
  /\ IsLeafResponse(rs[0])
  /\ rs[0].finalUrl = rs[0].arg
  /\ rs[0].result = rs[0].arg

\* C4: cycle guard. When the playlist fetched for the requested URL has a
\* single entry and it points back to the requested URL, the call ends at
\* that step: one fetch in all, and the result is that URL.
C4_CycleGuard ==
  \A c \in DOMAIN rs :
    (/\ LastReadLevel(rs[c]) = 0
     /\ rs[c].entries = 1
     /\ rs[c].ref = rs[c].arg)
    => /\ rs[c].pc = "done"
       /\ rs[c].nfetch = 1
       /\ rs[c].result = rs[c].arg

\* a manifest URL whose playlist points back to it was resolved to itself
C4_SelfReference ==
  \E c \in DOMAIN rs :
    /\ rs[c].pc = "done" /\ rs[c].read /\ rs[c].depth = 0
    /\ rs[c].entries = 1 /\ rs[c].ref = rs[c].arg
    /\ IsManifestUrl(rs[c].arg)
    /\ rs[c].result = rs[c].arg

\* C5: on a chain of k manifests (1 <= k <= 5), each one's first entry
\* referencing the next and the last one's first entry referencing a URL
\* that is no manifest, the call returns that reference after exactly k
\* fetches (k = depth + 1 of the level that read the last manifest).
C5_ChainToLeaf ==
  \A c \in DOMAIN rs :
    (/\ rs[c].read
     /\ rs[c].chain = rs[c].depth
     /\ rs[c].ref.kind = "abs" /\ ~IsManifestUrl(rs[c].ref))
    => /\ rs[c].pc = "done"
       /\ rs[c].result = rs[c].ref
       /\ rs[c].nfetch = rs[c].depth + 1

\* a chain of 5 manifests ended in a leaf reference
C5_LongestChain ==
  \E c \in DOMAIN rs :
    /\ rs[c].pc = "done" /\ rs[c].read /\ rs[c].depth = maxDepth
    /\ rs[c].chain = maxDepth
    /\ rs[c].ref.kind = "abs" /\ ~IsManifestUrl(rs[c].ref)
    /\ rs[c].result = rs[c].ref /\ rs[c].nfetch = maxDepth + 1


\* -------------------------------------------------- wrapper properties
\* the calls made on the client library of one kind
LogOf(op) == {j \in 1..Len(hlsLog) : hlsLog[j].op = op}

\* C6: a wrapped call whose index is no number, is negative or is >= the
\* playlist length only delegates: orig is invoked with that index, no
\* resolveStreamUrl call and no fetch is made, no playlist entry is written
\* and no deferred pass is scheduled.
C6_InvalidIndexDelegates ==
  \A c \in Calls :
    (/\ cs[c].pc # "new"
     /\ \/ cs[c].idx.kind = "str"
        \/ cs[c].idx.kind = "int" /\ cs[c].idx.n < 0
        \/ cs[c].idx.kind = "int" /\ cs[c].idx.n >= Len(currentPlaylist))
    => /\ cs[c].pc \in {"delegated", "end"}
       /\ cs[c].origArgs = <<cs[c].idx>>
       /\ cs[c].resolves = 0
       /\ rs[c].pc = "idle" /\ rs[c].nfetch = 0
       /\ cs[c].wrote = 0
       /\ cs[c].timers = 0

\* a call with index = length has delegated and settled
C6_IndexAtLength ==
  \E c \in Calls :
    /\ cs[c].pc = "end"
    /\ cs[c].idx.kind = "int" /\ cs[c].idx.n = Len(currentPlaylist)
    /\ cs[c].origArgs = <<cs[c].idx>>

\* C7: a numeric index that is no integer (a fraction inside [0, length),
\* NaN) bypasses the core: no resolveStreamUrl call, no playlist write, no
\* deferred pass, only orig(idx).
C7_NonIntegerBypasses ==
  \A c \in Calls :
    (cs[c].pc # "new" /\ cs[c].idx.kind \in {"frac", "nan"})
    => /\ cs[c].resolves = 0
       /\ cs[c].wrote = 0
       /\ cs[c].timers = 0
       /\ cs[c].pc \in {"delegated", "end"}

\* C8: at most one client instance is live (constructed, destroy not yet
\* called on it), and a live instance is the one the slot holds.
C8_SessionExclusive ==
  /\ \A i \in 1..Len(hls) : hls[i].live => hlsInstance = i
  /\ hlsInstance # 0 => hlsInstance \in 1..Len(hls) /\ hls[hlsInstance].live

\* a second instance has replaced the first
C8_Replaced ==
  /\ Len(hls) = 2
  /\ hlsInstance = 2
  /\ ~hls[1].live /\ hls[2].live
  /\ hls[1].by # hls[2].by

\* C9: after N successful attachments (every instance constructed was
\* bound, and the slot holds one) exactly one instance is live, N - 1
\* destroy calls were made, one per superseded instance, and each was made
\* after the construction of the instance it destroys and before the
\* construction of the next one.
C9_DestroyBeforeNew ==
  (hlsInstance # 0 /\ \A i \in 1..Len(hls) : hls[i].attached)
  => LET N == Len(hls)
     IN  /\ {i \in 1..N : hls[i].live} = {N}
         /\ Cardinality(LogOf("destroy")) = N - 1
         /\ Cardinality(LogOf("new")) = N
         /\ \A i \in 1..(N - 1) :
              \E j \in LogOf("new"), k \in LogOf("destroy"), m \in LogOf("new") :
                /\ hlsLog[j].inst = i /\ hlsLog[k].inst = i /\ hlsLog[m].inst = i + 1
                /\ j < k /\ k < m

\* two attachments succeeded one after the other
C9_TwoAttachments ==
  /\ Len(hls) = 2
  /\ hls[1].attached /\ hls[2].attached
  /\ hlsInstance = 2
  /\ Cardinality(LogOf("destroy")) = 1

\* C10: the document never holds more than one script tag of the client,
\* however many passes call loadScript, together or one after the other,
\* and whether the first load succeeds or fails.
C10_OneScriptTag == Len(scripts) <= 1

\* every call has called loadScript, the first load has failed, and there is
\* one tag
C10_LoadedOnceAfterFailure ==
  /\ \A c \in Calls : cs[c].loads = 1 /\ cs[c].pc = "end"
  /\ scripts = <<"failed">>

\* the index is one the wrapper resolves: an integer within [0, length)
ValidIndex(idx) == idx.kind = "int" /\ idx.n \in 0..(Len(currentPlaylist) - 1)

\* C11: for a wrapped call with a valid index, orig is not invoked while the
\* resolution of that call is in progress (awaiting fetch() or resp.text()
\* at any level); when orig has been invoked, resolveStreamUrl was called
\* once for the call and its call chain has ended.
C11_ResolveBeforeOrig ==
  \A c \in Calls :
    /\ rs[c].pc \in {"fetch", "text"} =>
         cs[c].pc = "resolving" /\ cs[c].origArgs = <<>>
    /\ cs[c].pc = "resolving" => cs[c].origArgs = <<>>
    /\ (ValidIndex(cs[c].idx) /\ cs[c].origArgs # <<>>) =>
         /\ cs[c].resolves = 1
         /\ rs[c].pc = "idle"

\* orig is awaited by a call whose resolution went to the network and
\* changed the entry
C11_OrigAfterResolution ==
  \E c \in Calls :
    /\ cs[c].pc = "orig" /\ ValidIndex(cs[c].idx)
    /\ cs[c].resolves = 1 /\ cs[c].wrote = 1
    /\ cs[c].origArgs = <<cs[c].idx>>
    /\ rs[c].pc = "idle"

\* C12: a failure of the loaded-client steps (the script fails to load, new
\* Hls() or attachMedia() throws, destroy() of the previous instance throws)
\* is caught inside the pass: the pass ends, the promise the call returned
\* stays fulfilled and orig was invoked for the call before the pass ran.
\* A pass is scheduled only once the call's promise is about to fulfil, and
\* no step of a pass changes that promise.
C12_PassFailureCaught ==
  \A c \in Calls :
    /\ cs[c].caught # {} =>
         /\ cs[c].pc = "end"
         /\ cs[c].ret = "fulfilled"
         /\ cs[c].origArgs = <<cs[c].idx>>
    /\ cs[c].timers >= 1 =>
         /\ cs[c].ret = "fulfilled"
         /\ cs[c].origArgs = <<cs[c].idx>>

\* a pass in which destroy() of the previous instance and attachMedia() of
\* the new one both threw has ended, and the call's promise is fulfilled
C12_DestroyAndAttachThrew ==
  \E c \in Calls :
    /\ cs[c].caught = {"destroy", "attach"}
    /\ cs[c].pc = "end" /\ cs[c].ret = "fulfilled"

\* C13: when level k of a call chain fails (fetch rejects, the final URL
\* does not parse, the body read fails) the call returns the URL level k was
\* called with: the URL the chain was first asked for when k = 0, and for
\* k >= 1 a manifest URL, the reference level k - 1 recursed into (while
\* level k awaits its fetch, its input is the reference the body of level
\* k - 1 made, where that body's first entry is a manifest reference).  The
\* failing level has read no body, and a final URL it saw is not what is
\* returned unless it is that input.
C13_FailureReturnsLevelInput ==
  \A c \in DOMAIN rs :
    /\ (rs[c].pc = "fetch" /\ rs[c].depth >= 1 /\ IsManifestUrl(rs[c].ref)) =>
         rs[c].originalUrl = rs[c].ref
    /\ (rs[c].pc = "done" /\ rs[c].failed) =>
         /\ ~rs[c].read
         /\ rs[c].result = rs[c].originalUrl
         /\ rs[c].depth = 0 => rs[c].result = rs[c].arg
         /\ rs[c].depth >= 1 => IsManifestUrl(rs[c].result)

\* a nested level was redirected and then failed to read its body: the
\* result is the input of that level, not the first URL and not the
\* redirect target
C13_NestedFailure ==
  \E c \in DOMAIN rs :
    /\ rs[c].pc = "done" /\ rs[c].failed /\ rs[c].depth >= 1
    /\ looksLikePlaylist(rs[c].finalUrl, rs[c].ct)
    /\ rs[c].finalUrl.kind = "abs" /\ rs[c].finalUrl # rs[c].originalUrl
    /\ rs[c].result = rs[c].originalUrl
    /\ rs[c].result # rs[c].arg

\* C14: when the body of a response classified as a playlist is empty or
\* holds blank lines and comment lines only, the call returns the final URL
\* of that fetch and makes no further fetch; so too for a response that is
\* a playlist by its content type text/plain alone.
C14_NoReferenceReturnsFinal ==
  \A c \in DOMAIN rs :
    (rs[c].read /\ rs[c].entries = 0) =>
      /\ looksLikePlaylist(rs[c].finalUrl, rs[c].ct)
      /\ rs[c].pc = "done" /\ ~rs[c].failed
      /\ rs[c].result = rs[c].finalUrl
      /\ rs[c].nfetch = rs[c].depth + 1

\* a text/plain response whose final URL has no playlist suffix and differs
\* from the requested URL had no reference: the final URL is the result
C14_TextPlainNoReference ==
  \E c \in DOMAIN rs :
    /\ rs[c].pc = "done" /\ rs[c].read /\ rs[c].entries = 0
    /\ rs[c].depth = 0 /\ rs[c].nfetch = 1
    /\ rs[c].ct = "text/plain" /\ rs[c].finalUrl.ext = "mp3"
    /\ rs[c].finalUrl # rs[c].arg
    /\ rs[c].result = rs[c].finalUrl

\* C15: the pass treats the source it found as HLS, and goes on to the
\* native or the loaded-client attachment, exactly when the source ends in
\* .m3u8 or in .m3u (in any case of the letters); for any other source it
\* does nothing.
C15_M3uIsHls ==
  \A c \in Calls :
    (ValidIndex(cs[c].idx) /\ cs[c].timers = 1 /\ cs[c].pc \in {"load", "end"})
    => (cs[c].m3uSrc <=> (cs[c].native \/ cs[c].loads >= 1))

\* C16: every wrapped call invokes orig exactly once, with the index it was
\* given: never before its resolution has ended, and never a second time,
\* whether the promise of orig fulfils or rejects.  (Stated for the calls
\* whose index is an integer or no number at all.)
C16_OrigExactlyOnce ==
  \A c \in Calls :
    cs[c].idx.kind \in {"int", "str"} =>
      /\ Len(cs[c].origArgs) <= 1
      /\ cs[c].pc \notin {"new", "resolving"} => cs[c].origArgs = <<cs[c].idx>>

\* C17: at every depth, when the first entry of the body just read refers
\* to a manifest and that reference is the URL the call chain was first
\* asked for, it is not fetched again: the call ends there with that URL,
\* having made one fetch per level (a cycle A -> B -> A ends at B's body).
\* (entries >= 1: no fetch has settled since the body was read.)
C17_GuardAgainstFirstUrl ==
  \A c \in DOMAIN rs :
    (/\ rs[c].entries >= 1
     /\ IsManifestUrl(rs[c].ref)
     /\ rs[c].ref = rs[c].arg)
    => /\ rs[c].pc = "done"
       /\ rs[c].result = rs[c].arg
       /\ rs[c].nfetch = LastReadLevel(rs[c]) + 1

\* C18: a step changes the playlist only as the write of one wrapped call
\* (the step in which its resolution ends): it changes one entry, the one at
\* the index of that call, it is the only write the call makes, and the
\* length of the playlist never changes.
C18_WritesOwnEntryOnce ==
  [][/\ Len(currentPlaylist') = Len(currentPlaylist)
     /\ \A c \in Calls : cs'[c].wrote <= 1
     /\ \A j \in 1..Len(currentPlaylist) :
          currentPlaylist'[j] # currentPlaylist[j] =>
            /\ \A k \in 1..Len(currentPlaylist) :
                 k # j => currentPlaylist'[k] = currentPlaylist[k]
            /\ \E c \in Calls :
                 /\ cs[c].pc = "resolving" /\ cs'[c].pc = "orig"
                 /\ cs[c].idx = [kind |-> "int", n |-> j - 1]
                 /\ cs[c].wrote = 0 /\ cs'[c].wrote = 1
                 /\ \A o \in Calls \ {c} : cs'[o] = cs[o]]_vars

\* two calls in flight together, for different indices, have each written
\* their entry
C18_TwoCallsWrote ==
  \E c, o \in Calls :
    /\ cs[c].pc = "orig" /\ cs[o].pc = "orig"
    /\ cs[c].idx.n # cs[o].idx.n
    /\ cs[c].wrote = 1 /\ cs[o].wrote = 1
    /\ cs[c].atOrig = currentPlaylist[cs[c].idx.n + 1]
    /\ cs[o].atOrig = currentPlaylist[cs[o].idx.n + 1]

\* C19: for a call with a valid index i, when orig is invoked at the end of
\* the resolution, entry i of the playlist is the resolved URL if the
\* resolver returned a non-empty URL other than the entry read at the start
\* of the call (the one write of the call), and the call has written
\* nothing if the resolved URL is that entry.
C19_EntryAtOrig ==
  \A c \in Calls :
    (cs[c].pc = "orig" /\ ValidIndex(cs[c].idx)) =>
      /\ (~Falsy(cs[c].resolved) /\ cs[c].resolved # cs[c].t) =>
           cs[c].atOrig = cs[c].resolved /\ cs[c].wrote = 1
      /\ cs[c].resolved = cs[c].t => cs[c].wrote = 0

\* orig is invoked with the entry rewritten to the resolved URL, and the
\* other call, resolved to the entry it read, has written nothing
C19_RewrittenAndUntouched ==
  \E c, o \in Calls :
    /\ cs[c].pc = "orig" /\ ValidIndex(cs[c].idx)
    /\ cs[c].resolved # cs[c].t /\ cs[c].atOrig = cs[c].resolved
    /\ cs[o].pc = "orig" /\ ValidIndex(cs[o].idx) /\ cs[o].resolves = 1
    /\ cs[o].resolved = cs[o].t /\ cs[o].wrote = 0

\* C20: a pass that finds an HLS source on an element with native support
\* assigns that source to the element and calls play(); a rejection of
\* play() is swallowed (the pass ends, the call's promise stays fulfilled);
\* the pass does not call loadScript, adds no script tag, and leaves the
\* slot, the instances and the calls made on the client as they were.
C20_NativePathFrame ==
  [][\A c \in Calls :
       cs'[c].native =>
         /\ cs'[c].pc = "end"
         /\ cs'[c].ret = "fulfilled"
         /\ cs'[c].caught \subseteq {"play"}
         /\ cs'[c].loads = 0
         /\ ~Falsy(cs'[c].assigned) /\ isHls(cs'[c].assigned)
         /\ ~cs[c].native =>
              /\ cs[c].pc = "timer"
              /\ scripts' = scripts
              /\ hlsInstance' = hlsInstance
              /\ hls' = hls
              /\ hlsLog' = hlsLog]_vars

\* a native-path pass whose play() was rejected has ended, next to a live
\* instance the pass of the other call attached
C20_NativeBesideInstance ==
  \E c \in Calls :
    /\ cs[c].native /\ cs[c].caught = {"play"}
    /\ cs[c].pc = "end" /\ cs[c].loads = 0
    /\ hlsInstance # 0 /\ hls[hlsInstance].live /\ hls[hlsInstance].by # c

\* C21: when the passes of the wrapped calls have all finished and each has
\* constructed an instance, the slot holds the instance constructed last
\* (the one of the pass that reached the attachment last, whichever call
\* was made first), that instance is live, and every other instance has
\* been destroyed.
C21_LastPassWins ==
  (\A c \in Calls :
     cs[c].pc = "end" /\ \E i \in 1..Len(hls) : hls[i].by = c)
  => /\ hlsInstance = Len(hls)
     /\ hls[hlsInstance].live
     /\ \A k \in LogOf("new") :
          hlsLog[k].inst = hlsInstance => \A j \in LogOf("new") : j <= k
     /\ \A i \in 1..(Len(hls) - 1) :
          /\ ~hls[i].live
          /\ \E k \in LogOf("destroy") : hlsLog[k].inst = i

\* the pass of the call made first reached the attachment last: its
\* instance is the live one and the instance of the later call is destroyed
C21_FirstCallAttachedLast ==
  /\ \A c \in Calls : cs[c].pc = "end"
  /\ Len(hls) = 2 /\ hls[1].by = 2 /\ hls[2].by = 1
  /\ hlsInstance = 2 /\ hls[2].live /\ ~hls[1].live

\* C22: the promise of loadScript fulfils only when the script of the client
\* has loaded: a pass (of a call with a valid index) that has gone past
\* await loadScript without a load error runs its attachment steps with the
\* library defined, also when the tag it found was still loading or had
\* failed to load.
C22_LoadedWhenResolved ==
  \A c \in Calls :
    (/\ ValidIndex(cs[c].idx)
     /\ cs[c].pc = "end" /\ cs[c].loads = 1
     /\ "load" \notin cs[c].caught)
    => HlsDefined

\* C23: a pass that finds no container, no audio element, no source, or a
\* source the code does not classify as HLS ends with no effect: it assigns
\* no source, calls neither play() nor loadScript, adds no script tag, and
\* leaves the slot, the instances, the calls made on the client and the
\* playlist as they were.
C23_AbortHasNoEffect ==
  [][\A c \in Calls :
       (/\ cs[c].found = "none"
        /\ cs'[c].found \in {"nomodal", "noaudio", "nosrc", "nothls"})
       => /\ cs[c].pc = "timer" /\ cs'[c].pc = "end"
          /\ Falsy(cs'[c].assigned) /\ ~cs'[c].native
          /\ cs'[c].loads = 0 /\ cs'[c].caught = {}
          /\ scripts' = scripts
          /\ hlsInstance' = hlsInstance
          /\ hls' = hls
          /\ hlsLog' = hlsLog
          /\ currentPlaylist' = currentPlaylist]_vars

\* the pass of one call found a source that is not HLS and ended, and the
\* instance the pass of the other call attached is live in the slot
C23_AbortBesideInstance ==
  \E c \in Calls :
    /\ cs[c].pc = "end" /\ cs[c].found = "nothls" /\ cs[c].loads = 0
    /\ hlsInstance # 0 /\ hls[hlsInstance].live /\ hls[hlsInstance].by # c
    /\ LogOf("destroy") = {}

\* C24: loadSource is called only by the MEDIA_ATTACHED handler of an
\* instance: of one that is bound and not destroyed, whose construction is
\* on record and whose pass has ended; it is called on that instance, with
\* the source of the pass that registered the handler.
C24_LoadSourceOnOwnInstance ==
  [][(/\ hlsLog' # hlsLog
      /\ hlsLog'[Len(hlsLog')].op = "loadSource")
     => /\ hlsLog' = Append(hlsLog, hlsLog'[Len(hlsLog')])
        /\ \E i \in 1..Len(hls) :
             /\ ~Falsy(hls[i].handler) /\ Falsy(hls'[i].handler)
             /\ hls[i].live /\ hls[i].attached
             /\ hls'[i].live
             /\ \E j \in LogOf("new") : hlsLog[j].inst = i
             /\ cs[hls[i].by].pc = "end"
             /\ hlsLog'[Len(hlsLog')].inst = i
             /\ hlsLog'[Len(hlsLog')].src = hls[i].handler]_vars

\* two passes overlapped: the first instance loaded its source, was
\* replaced, and the second instance loaded another source
C24_TwoInstancesLoaded ==
  \E j, k \in LogOf("loadSource") :
    /\ j < k
    /\ hlsLog[j].inst = 1 /\ hlsLog[k].inst = 2
    /\ hlsLog[j].src # hlsLog[k].src
    /\ hls[1].by # hls[2].by

\* C25: a call schedules at most one pass, and only when the promise of
\* orig it awaited has fulfilled: no pass is scheduled before that, none
\* when that promise rejected, and none for a call whose index is not an
\* integer within [0, length).
C25_PassOnlyAfterOrigFulfilled ==
  \A c \in Calls :
    /\ cs[c].timers <= 1
    /\ cs[c].timers = 1 =>
         /\ cs[c].awaited = "fulfilled"
         /\ cs[c].pc \in {"timer", "load", "end"}
         /\ cs[c].ret = "fulfilled"
    /\ cs[c].awaited = "rejected" => cs[c].timers = 0
    /\ cs[c].pc \in {"new", "resolving", "orig", "delegated"} => cs[c].timers = 0
    /\ (cs[c].pc # "new" /\ ~ValidIndex(cs[c].idx)) => cs[c].timers = 0

\* C26: the body of a response classified as a playlist decides the result
\* by its first line that is not blank, is no comment and parses as a
\* reference against the response's final URL. When the frame returns, it
\* returns that reference (the final URL if the body has none); when it
\* calls itself, it does so with that reference, a manifest URL. A
\* relative reference takes the directory of the final URL.
C26_FirstUsableReferenceDecides ==
  \A c \in DOMAIN rs :
    /\ rs[c].read =>
         /\ rs[c].pc = "done" /\ ~rs[c].failed
         /\ looksLikePlaylist(rs[c].finalUrl, rs[c].ct)
         /\ rs[c].result =
              IF rs[c].usable = Undefined THEN rs[c].finalUrl ELSE rs[c].usable
         /\ rs[c].rel => rs[c].result.dir = rs[c].finalUrl.dir
    /\ (~rs[c].read /\ rs[c].usable # Undefined) =>
         /\ rs[c].depth >= 1
         /\ rs[c].originalUrl = rs[c].usable
         /\ IsManifestUrl(rs[c].usable)
         /\ \/ rs[c].pc = "fetch"
            \/ /\ rs[c].pc = "done" /\ rs[c].depth = maxDepth + 1
               /\ rs[c].result = rs[c].usable

\* a body whose first entry does not parse and whose second entry is a
\* relative reference, read from a final URL in another directory than
\* the requested URL: the result is that reference in the directory of the
\* final URL
C26_RelativeAfterUnparsable ==
  \E c \in DOMAIN rs :
    /\ rs[c].pc = "done" /\ rs[c].read /\ rs[c].depth = 0
    /\ rs[c].entries = 2 /\ rs[c].ref = BadRef /\ rs[c].rel
    /\ rs[c].finalUrl.dir # rs[c].arg.dir /\ rs[c].arg.kind = "abs"
    /\ rs[c].usable = [kind |-> "abs", dir |-> rs[c].finalUrl.dir, ext |-> "mp3"]
    /\ rs[c].result = rs[c].usable

====
